---------------------------- MODULE Spec2Model ----------------------------
(* ALEPH dashboard: the telemetry ingestion hook (useAlephSocket) and the *)
(* 3D reservoir view (ReservoirView / BrainScene and its per-frame        *)
(* renderers), backend-authoritative variant.                             *)
(*                                                                        *)
(* Conventions.  Node, band and slot indices are 0-based as in the        *)
(* source; a JS array is a TLA+ sequence, so a[i] is the (i+1)-th element.*)
(* Activations are integers in hundredths (0.15 is 15).  An object is a   *)
(* function from its keys; an absent field is a key outside its DOMAIN.   *)
EXTENDS Integers, Sequences, FiniteSets, TLC

(**************************************************************************)
(* Sizes.  The source's capacities are scaled down so that every one of   *)
(* them binds within a handful of nodes.                                  *)
(**************************************************************************)
\* MAX_NEURONS is 2500 in the source.
MAX_NEURONS == 3
\* ReservoirView: rawSize > 100 (else the default display size is used).
MIN_RAW_SIZE == 1
\* maxLines of InjectFlow (300), AuditoryFlow (128), HebbianWeb (600).
InjectMaxLines == 2
AuditoryMaxLines == 2
HebbianMaxLines == 2
\* FrontalLobe: 512 concepts.
CONCEPTS == 2
\* pair sampler: targetPairs (1000) and the attempts limit (10000).
TargetPairs == 3
MaxAttempts == 6
\* number of websocket messages delivered in one behaviour
MaxMessages == 3
\* the frame clock wraps after this many frames
ClockPeriod == 2
\* invocations of the layout generators followed in one behaviour
MaxInvocations == 7
\* calls of startCapture followed in one behaviour
MaxSessions == 2

Min(a, b) == IF a < b THEN a ELSE b
Max(a, b) == IF a > b THEN a ELSE b

(**************************************************************************)
(* mulberry32: 32-bit words are pairs <<hi, lo>> of 16-bit halves, so     *)
(* that no intermediate value leaves the range of the checker's integers. *)
(**************************************************************************)
H == 65536

RECURSIVE Xor16(_, _, _)
Xor16(a, b, n) ==
    IF n = 0 THEN 0
    ELSE ((a + b) % 2) + 2 * Xor16(a \div 2, b \div 2, n - 1)

RECURSIVE Or16(_, _, _)
Or16(a, b, n) ==
    IF n = 0 THEN 0
    ELSE (IF a % 2 = 1 \/ b % 2 = 1 THEN 1 ELSE 0) + 2 * Or16(a \div 2, b \div 2, n - 1)

Xor32(x, y) == << Xor16(x[1], y[1], 16), Xor16(x[2], y[2], 16) >>

\* t | c for a constant c < 2^16
OrLow(x, c) == << x[1], Or16(x[2], c, 16) >>

Add32(x, y) ==
    LET lo == x[2] + y[2]
        hi == x[1] + y[1] + (lo \div H)
    IN  << hi % H, lo % H >>

RECURSIVE Pow2(_)
Pow2(k) == IF k = 0 THEN 1 ELSE 2 * Pow2(k - 1)

\* t >>> k for 0 < k < 16
Shr32(x, k) ==
    << x[1] \div Pow2(k),
       ((x[1] % Pow2(k)) * Pow2(16 - k)) + (x[2] \div Pow2(k)) >>

\* (a * b) mod 2^16 for 16-bit a, b
Mul16Low(a, b) == ((a * (b % 256)) + ((a * (b \div 256)) % 256) * 256) % H

\* the full product of two 16-bit numbers, as a 32-bit word
Mul16Full(a, b) ==
    LET p0 == a * (b % 256)
        p1 == a * (b \div 256)
    IN  Add32(<< p0 \div H, p0 % H >>, << p1 \div 256, (p1 % 256) * 256 >>)

\* Math.imul
Imul(x, y) ==
    LET low   == Mul16Full(x[2], y[2])
        cross == (Mul16Low(x[1], y[2]) + Mul16Low(x[2], y[1])) % H
    IN  << (low[1] + cross) % H, low[2] >>

\* 0x6D2B79F5
MulberryIncrement == << 27947, 31221 >>

\* the value returned by one call of the closure, as a word w: the call
\* returns w / 4294967296
MulberryOut(a) ==
    LET t1 == Imul(Xor32(a, Shr32(a, 15)), OrLow(a, 1))
        t2 == Xor32(t1, Add32(t1, Imul(Xor32(t1, Shr32(t1, 7)), OrLow(t1, 61))))
    IN  Xor32(t2, Shr32(t2, 14))

\* the first n values returned by mulberry32(seed)
RECURSIVE MulberryStream(_, _)
MulberryStream(a, n) ==
    IF n = 0 THEN << >>
    ELSE LET a1 == Add32(a, MulberryIncrement)
         IN  << MulberryOut(a1) >> \o MulberryStream(a1, n - 1)

\* mulberry32(101), as far as one run of the pair sampler can consume it
PairSeed == 101
Stream101 == MulberryStream(<< 0, PairSeed >>, 4 * MaxAttempts)

\* Math.floor(rng() * n) for the draw w, 0 < n <= 2^15
FloorScale(w, n) == ((w[1] * n) + ((w[2] * n) \div H)) \div H


(**************************************************************************)
(* JSON values.  A parsed value is [t, truthy, keys, f, id]: its type,    *)
(* its truthiness, Object.keys(v).length, for an object its fields, and   *)
(* its identity: JSON.parse builds new objects for every message, so the  *)
(* identity of a parsed value is the arrival number of its message (0 for *)
(* a value not yet parsed).                                               *)
(**************************************************************************)
NoFields == [k \in {} |-> 0]

JNull == [t |-> "null", truthy |-> FALSE, keys |-> 0, f |-> NoFields, id |-> 0]
JNum(truthy) == [t |-> "num", truthy |-> truthy, keys |-> 0, f |-> NoFields, id |-> 0]
JStr(n) == [t |-> "str", truthy |-> n > 0, keys |-> n, f |-> NoFields, id |-> 0]
JArr(n) == [t |-> "arr", truthy |-> TRUE, keys |-> n, f |-> NoFields, id |-> 0]
JObj(fields) ==
    [t |-> "obj", truthy |-> TRUE, keys |-> Cardinality(DOMAIN fields), f |-> fields,
     id |-> 0]

\* JSON.parse(raw): the value of the text, as new objects (the message and,
\* when it has one, the object under its Telemetry key)
Parse(json, arrival) ==
    [json EXCEPT !.id = arrival,
                 !.f = [k \in DOMAIN json.f |->
                          IF k = "Telemetry" THEN [json.f[k] EXCEPT !.id = arrival]
                          ELSE json.f[k]]]

Has(v, k) == k \in DOMAIN v.f

\* a reservoir_activity array: flat numbers, or [index, value] pairs
Flat(a) == [shape |-> "flat", a |-> a]
Pairs(a) == [shape |-> "pairs", a |-> a]

\* a position entry that is null (or undefined)
NullPos == << >>

\* a region tag read outside the region map (undefined)
NoRegion == -1

\* fields of v restricted to the keys in ks
Keep(fields, ks) == [k \in (DOMAIN fields) \cap ks |-> fields[k]]

(**************************************************************************)
(* Array reads.                                                           *)
(**************************************************************************)
InRange(a, i) == i >= 0 /\ i < Len(a)

\* a[i] || 0 for an array of numbers
NumAt0(a, i) == IF InRange(a, i) THEN a[i + 1] ELSE 0

\* neuronPositions[i]: NullPos when null or undefined
PosAt(a, i) == IF InRange(a, i) THEN a[i + 1] ELSE NullPos

\* regionMap[i]
RegionAt(a, i) == IF InRange(a, i) THEN a[i + 1] ELSE NoRegion

(**************************************************************************)
(* HebbianWeb: the small-world pair sampler (the body of the pairs memo). *)
(**************************************************************************)
\* Math.sqrt(dx*dx + dy*dy + dz*dz).  The position sets of the model have
\* integral pairwise distances; any other distance has no value here.
Dist(p, q) ==
    LET dx == p[1] - q[1]
        dy == p[2] - q[2]
        dz == p[3] - q[3]
        d2 == dx * dx + dy * dy + dz * dz
    IN  CHOOSE d \in 0 .. d2 : d * d = d2

\* rng() < 5.0 / (dist + 0.1) for the draw w, i.e. w * (10 d + 1) < 50 * 2^32
DrawBelowProb(w, d) ==
    LET m == 10 * d + 1
    IN  (w[1] * m) + ((w[2] * m) \div H) < 50 * H

\* the same test for a distance given in twentieths (d20 = 20 dist):
\* w * (d20 + 2) < 100 * 2^32
DrawBelowProbAt(w, d20) ==
    LET m == d20 + 2
    IN  (w[1] * m) + ((w[2] * m) \div H) < 100 * H

\* rng() < 0.01 for the draw w, i.e. w <= 42949672 = 655 * 2^16 + 23592
DrawBelowFlat(w) == w[1] < 655 \/ (w[1] = 655 /\ w[2] <= 23592)

\* (mutant) only the distance test accepts a pair
PairAcceptedProbOnly(w1, w2, d20) == DrawBelowProbAt(w1, d20)

\* rng() < prob || rng() < 0.01, w1 and w2 the next two draws; the second
\* is taken only when the first test fails
PairAccepted(w1, w2, d20) == DrawBelowProbAt(w1, d20) \/ DrawBelowFlat(w2)

\* the number of draws one attempt on a pair with two positions consumes
PairDraws(w1, d20) == IF DrawBelowProbAt(w1, d20) THEN 3 ELSE 4

\* (mutant) the loop runs once more after the target is reached
SamplerContinuesOffByOne(found, attempts) ==
    found <= TargetPairs /\ attempts < MaxAttempts

\* the loop condition of the sampler
SamplerContinues(found, attempts) == found < TargetPairs /\ attempts < MaxAttempts

\* the while loop: p the pairs so far, k the number of draws consumed
RECURSIVE SampleLoop(_, _, _, _, _)
SampleLoop(np, nCount, p, attempts, k) ==
    IF ~SamplerContinues(Len(p), attempts)
    THEN [pairs |-> p, attempts |-> attempts]
    ELSE LET i == FloorScale(Stream101[k + 1], nCount)
             j == FloorScale(Stream101[k + 2], nCount)
         IN  IF i = j
             THEN SampleLoop(np, nCount, p, attempts + 1, k + 2)
             ELSE IF PosAt(np, i) = NullPos \/ PosAt(np, j) = NullPos
             THEN SampleLoop(np, nCount, p, attempts + 1, k + 2)
             ELSE LET d20 == 20 * Dist(PosAt(np, i), PosAt(np, j))
                      k2 == k + PairDraws(Stream101[k + 3], d20)
                  IN  IF PairAccepted(Stream101[k + 3], Stream101[k + 4], d20)
                      THEN SampleLoop(np, nCount, Append(p, << i, j >>), attempts + 1, k2)
                      ELSE SampleLoop(np, nCount, p, attempts + 1, k2)

\* neuronPositions as a prop: undefined, or an array
NoPositions == [def |-> FALSE, a |-> << >>]
Positions(a) == [def |-> TRUE, a |-> a]

\* (mutant) the sampler draws from every backend position
SamplerCountUnclamped(np) == Len(np.a)

\* the number of nodes the sampler draws from
SamplerCount(np) == Min(Len(np.a), MAX_NEURONS)

SamplePairs(np) ==
    IF ~np.def \/ Len(np.a) = 0
    THEN [pairs |-> << >>, attempts |-> 0]
    ELSE SampleLoop(np.a, SamplerCount(np), << >>, 0, 0)

(**************************************************************************)
(* ReservoirView and BrainScene: what one render hands to each component. *)
(* gen is the identity of the snapshot the props were derived from (0     *)
(* before any); it is bookkeeping, no renderer reads it.                  *)
(**************************************************************************)
\* telemetry?.k || dflt, for a field whose present values are all truthy
Field(tel, k, dflt) == IF Has(tel, k) THEN tel.f[k] ELSE dflt

\* telemetry?.k || 0, for a number
NumField(tel, k) == IF Has(tel, k) THEN tel.f[k] ELSE 0

\* rawSize > 100 ? rawSize : Math.floor(MAX_NEURONS * 0.8)
DisplaySize(tel) ==
    LET rawSize == NumField(tel, "reservoir_size")
    IN  IF rawSize > MIN_RAW_SIZE THEN rawSize ELSE (MAX_NEURONS * 8) \div 10

NoEmbedding == [def |-> FALSE, a |-> << >>]
Embedding(a) == [def |-> TRUE, a |-> a]

Render(tel) ==
    LET g                 == tel.id
        reservoirActivity == Field(tel, "reservoir_activity", Flat(<< >>))
        activations       == Field(tel, "activations", << >>)
        size              == DisplaySize(tel)
        regionMap         == Field(tel, "region_map", << >>)
        neuronPositions   == IF Has(tel, "neuron_positions")
                             THEN Positions(tel.f["neuron_positions"])
                             ELSE NoPositions
        embedding         == Field(tel, "audio_spectrum", NoEmbedding)
    IN  [ FrontalLobe  |-> [gen |-> g, activations |-> activations],
          Connectome   |-> [gen |-> g, activity |-> reservoirActivity,
                            regionMap |-> regionMap,
                            neuronPositions |-> neuronPositions],
          InjectFlow   |-> [gen |-> g, neuronPositions |-> neuronPositions,
                            size |-> size, activations |-> activations,
                            regionMap |-> regionMap],
          AuditoryFlow |-> [gen |-> g, neuronPositions |-> neuronPositions,
                            embedding |-> embedding, regionMap |-> regionMap,
                            size |-> size],
          HebbianWeb   |-> [gen |-> g, neuronPositions |-> neuronPositions,
                            activity |-> reservoirActivity, size |-> size,
                            regionMap |-> regionMap],
          EntropyRing  |-> [gen |-> g, entropy |-> NumField(tel, "entropy"),
                            traumaState |-> Field(tel, "trauma_state", "")] ]

Components ==
    {"FrontalLobe", "Connectome", "InjectFlow", "AuditoryFlow", "HebbianWeb",
     "EntropyRing"}

\* The identity of telemetry?.neuron_positions: the array belongs to the
\* parse that built the snapshot; 0 stands for undefined.
PositionsIdentity(tel) == IF Has(tel, "neuron_positions") THEN tel.id ELSE 0

\* (mutant) the pairs are computed once and never again
MemoStaleOnce(memo, dep) == memo.runs = 0 /\ memo.dep # dep

\* useMemo(..., [neuronPositions]): the sampler runs when the identity of
\* the dependency differs from the one of the previous render
MemoStale(memo, dep) == memo.dep # dep

PairsMemo(memo, tel) ==
    LET dep == PositionsIdentity(tel)
        np  == IF Has(tel, "neuron_positions")
               THEN Positions(tel.f["neuron_positions"])
               ELSE NoPositions
        s   == SamplePairs(np)
    IN  IF MemoStale(memo, dep)
        THEN [dep |-> dep, pairs |-> s.pairs, attempts |-> s.attempts,
              runs |-> memo.runs + 1]
        ELSE memo

\* the effect on [hebbianEvents]: runs when the value differs from the one of
\* the previous render (glow in hundredths)
HebbianGlow(glow, oldTel, tel) ==
    LET old == NumField(oldTel, "hebbian_events")
        new == NumField(tel, "hebbian_events")
    IN  IF new # old /\ new > 0 THEN Min(100, glow + new * 5) ELSE glow

(**************************************************************************)
(* useAlephSocket: the effect on lastMessage.                             *)
(**************************************************************************)
\* sparkline length (120 in the source)
SPARK_LEN == 2

HistoryKeys == {"dopamine", "cortisol", "adenosine", "oxytocin", "serotonin", "entropy"}

\* [...prev, val].slice(-SPARK_LEN)
SliceLast(s) == IF Len(s) > SPARK_LEN THEN SubSeq(s, Len(s) - SPARK_LEN + 1, Len(s)) ELSE s

updateHistory(prev, newData) ==
    [key \in HistoryKeys |-> SliceLast(Append(prev[key], NumField(newData, key)))]

\* JSON.parse(raw) threw, or parsed.Telemetry was read off null
ParseThrows(m) == ~m.valid \/ m.json.t = "null"

\* parsed.Telemetry || parsed
Unwrap(parsed) ==
    IF Has(parsed, "Telemetry") /\ parsed.f["Telemetry"].truthy
    THEN parsed.f["Telemetry"]
    ELSE parsed

\* data && Object.keys(data).length > 0
Accepted(data) == data.truthy /\ data.keys > 0

\* (mutant) the new snapshot is merged into the current one
setTelemetryMerged(old, data) ==
    [data EXCEPT !.f = [k \in (DOMAIN old.f) \cup (DOMAIN data.f) |->
                          IF k \in DOMAIN data.f THEN data.f[k] ELSE old.f[k]]]

\* (mutant) a snapshot that arrives while one is held is dropped
setTelemetryFirstWins(old, data) == IF old.t = "null" THEN data ELSE old

\* setTelemetry(data)
setTelemetry(old, data) == data

(**************************************************************************)
(* Per-frame renderers.  Each takes the props of its component and the    *)
(* buffers it owns and gives the buffers after its useFrame callback.     *)
(*   Connectome positions: units of 0.05; colours: units of 1/20000.      *)
(*   FrontalLobe, InjectFlow, AuditoryFlow colours: units of 1/1000.      *)
(*   HebbianWeb colours: units of 1/100000.  Line endpoints: backend units.*)
(**************************************************************************)
SetMin(S) == CHOOSE m \in S : \A x \in S : m <= x

Nodes == 0 .. MAX_NEURONS - 1

\* (mutant) an index past the end of the array wraps around to its start
ActivityAtWraps(activity, i) ==
    IF Len(activity.a) = 0 THEN 0
    ELSE IF activity.shape = "pairs" THEN activity.a[(i % Len(activity.a)) + 1][2]
    ELSE activity.a[(i % Len(activity.a)) + 1]

\* activity[i] as both renderers read it: the second element when the entry
\* is an array, else activity[i] || 0 inside the array, else 0
ActivityAt(activity, i) ==
    IF ~InRange(activity.a, i) THEN 0
    ELSE IF activity.shape = "pairs" THEN activity.a[i + 1][2]
    ELSE activity.a[i + 1]

\* sin / cos of the elapsed time and the index, times 0.15: a periodic wave
\* of amplitude 3 (in units of 0.05)
Wave(k) == << 0, 3, 0, -3 >>[(k % 4) + 1]

Jitter(t, i) == << Wave(t + i), Wave(t + 2 * i + 1), Wave(t + (i \div 2)) >>

\* region palette, in tenths
Palette(rId) ==
    IF rId = 0 THEN << 10, 8, 1 >>
    ELSE IF rId = 1 THEN << 1, 10, 2 >>
    ELSE IF rId = 2 THEN << 6, 0, 10 >>
    ELSE << 1, 3, 5 >>

ConnectomeColor(p, i) ==
    LET val       == ActivityAt(p.activity, i)
        rId       == IF InRange(p.regionMap, i) THEN p.regionMap[i + 1] ELSE 3
        rgb       == Palette(rId)
        intensity == Max(0, val)
        flash     == intensity * intensity
    IN  << rgb[1] * intensity * 20 + flash + 400,
           rgb[2] * intensity * 20 + flash + 400,
           rgb[3] * intensity * 20 + flash + 800 >>

\* Math.min(backendCount, MAX_NEURONS)
ConnectomeCount(np) == IF np.def THEN Min(Len(np.a), MAX_NEURONS) ELSE 0

\* the first index whose read of bp[0] throws (bp is null), MAX_NEURONS if none
ConnectomeStop(np) ==
    LET nulls == {i \in 0 .. ConnectomeCount(np) - 1 : PosAt(np.a, i) = NullPos}
    IN  IF nulls = {} THEN MAX_NEURONS ELSE SetMin(nulls)

\* (mutant) an unused neuron is left as it was
ConnectomeNodeKeepsUnused(p, t, i, old) ==
    IF i < ConnectomeCount(p.neuronPositions)
    THEN LET bp == p.neuronPositions.a[i + 1]
             j  == Jitter(t, i)
         IN  [pos |-> << 20 * bp[1] + j[1], 20 * bp[2] + j[2], 20 * bp[3] + j[3] >>,
              col |-> ConnectomeColor(p, i)]
    ELSE old

\* (mutant) the colour of an active neuron breathes with the elapsed time
ConnectomeNodePulses(p, t, i, old) ==
    IF i < ConnectomeCount(p.neuronPositions)
    THEN LET bp == p.neuronPositions.a[i + 1]
             j  == Jitter(t, i)
             c  == ConnectomeColor(p, i)
         IN  [pos |-> << 20 * bp[1] + j[1], 20 * bp[2] + j[2], 20 * bp[3] + j[3] >>,
              col |-> << c[1] + Wave(t), c[2], c[3] >>]
    ELSE [pos |-> << 0, 0, 0 >>, col |-> << 0, 0, 0 >>]

\* (mutant) the drift is added to the position the buffer holds
ConnectomeNodeDrifts(p, t, i, old) ==
    IF i < ConnectomeCount(p.neuronPositions)
    THEN LET j == Jitter(t, i)
         IN  [pos |-> << old.pos[1] + j[1], old.pos[2] + j[2], old.pos[3] + j[3] >>,
              col |-> ConnectomeColor(p, i)]
    ELSE [pos |-> << 0, 0, 0 >>, col |-> << 0, 0, 0 >>]

\* what the loop writes at index i (old: what the buffers hold there)
ConnectomeNode(p, t, i, old) ==
    IF i < ConnectomeCount(p.neuronPositions)
    THEN LET bp == p.neuronPositions.a[i + 1]
             j  == Jitter(t, i)
         IN  [pos |-> << 20 * bp[1] + j[1], 20 * bp[2] + j[2], 20 * bp[3] + j[3] >>,
              col |-> ConnectomeColor(p, i)]
    ELSE [pos |-> << 0, 0, 0 >>, col |-> << 0, 0, 0 >>]

ConnectomeFrame(p, t, buf) ==
    LET stop == ConnectomeStop(p.neuronPositions)
        old(i) == [pos |-> buf.pos[i], col |-> buf.col[i]]
        new(i) == IF i < stop THEN ConnectomeNode(p, t, i, old(i)) ELSE old(i)
    IN  [pos   |-> [i \in Nodes |-> new(i).pos],
         col   |-> [i \in Nodes |-> new(i).col],
         threw |-> stop < MAX_NEURONS]

ConceptDark == << 20, 10, 30 >>

\* (mutant) a concept exactly on the threshold is lit
FrontalColorAtThreshold(activations, i) ==
    LET val == NumAt0(activations, i)
    IN  IF val >= 5 THEN << 9 * val + 100, 5 * val, 2 * val >> ELSE ConceptDark

FrontalColor(activations, i) ==
    LET val == NumAt0(activations, i)
    IN  IF val > 5 THEN << 9 * val + 100, 5 * val, 2 * val >> ELSE ConceptDark

FrontalLobeFrame(p) == [i \in 0 .. CONCEPTS - 1 |-> FrontalColor(p.activations, i)]

\* one line of a line buffer; n1 and n2 record which concept, band or node
\* each end was taken from (-1: none)
ZeroSlot ==
    [p1 |-> << 0, 0, 0 >>, p2 |-> << 0, 0, 0 >>, c1 |-> << 0, 0, 0 >>,
     c2 |-> << 0, 0, 0 >>, n1 |-> -1, n2 |-> -1]

\* frontVecs[k]: the generated position of concept k, undefined beyond 512.
\* The generated coordinates are stood for by distinct points in front.
FrontVec(k) == IF k >= 0 /\ k < CONCEPTS THEN << k, 0, 25 + k >> ELSE NullPos

\* (mutant) the loop is not stopped by the capacity of the buffer
InjectLoopGoesUncapped(i, size, len, lineIdx) == i < size /\ i < len

\* the loop conditions of the three line layers
InjectLoopGoes(i, size, len, lineIdx) ==
    i < size /\ i < len /\ lineIdx < InjectMaxLines

RECURSIVE InjectLoop(_, _, _, _)
InjectLoop(p, i, lineIdx, slots) ==
    IF ~InjectLoopGoes(i, p.size, Len(p.neuronPositions.a), lineIdx)
    THEN [slots |-> slots, lineIdx |-> lineIdx]
    ELSE IF RegionAt(p.regionMap, i) # 0
    THEN InjectLoop(p, i + 1, lineIdx, slots)
    ELSE LET actIdx == i % Len(p.activations)
             val    == NumAt0(p.activations, actIdx)
             v1     == FrontVec(actIdx)
             np     == PosAt(p.neuronPositions.a, i)
             a      == Min(val, 100)
         IN  IF val < 15 THEN InjectLoop(p, i + 1, lineIdx, slots)
             ELSE IF v1 = NullPos \/ np = NullPos
             THEN InjectLoop(p, i + 1, lineIdx, slots)
             ELSE InjectLoop(p, i + 1, lineIdx + 1,
                    [slots EXCEPT ![lineIdx] =
                        [p1 |-> v1, p2 |-> np, c1 |-> << 10 * a, 6 * a, a >>,
                         c2 |-> << 1000, 800, 200 >>, n1 |-> actIdx, n2 |-> i]])

\* (mutant) the early return leaves the draw range as it was
InjectFlowFrameNoReset(p, buf) ==
    IF Len(p.activations) = 0 \/ ~p.neuronPositions.def \/ Len(p.neuronPositions.a) = 0
    THEN buf
    ELSE LET r == InjectLoop(p, 0, 0, buf.slots)
         IN  [slots |-> r.slots, draw |-> r.lineIdx * 2]

InjectFlowFrame(p, buf) ==
    IF Len(p.activations) = 0 \/ ~p.neuronPositions.def \/ Len(p.neuronPositions.a) = 0
    THEN [slots |-> buf.slots, draw |-> 0]
    ELSE LET r == InjectLoop(p, 0, 0, buf.slots)
         IN  [slots |-> r.slots, draw |-> r.lineIdx * 2]

leftEar == << -45, -10, 0 >>
rightEar == << 45, -10, 0 >>

\* the target neuron of band b
AuditoryTarget(regionMap, size, b) ==
    LET start == (b * 5) % size
        hits  == {k \in 0 .. size - 1 : RegionAt(regionMap, (start + k) % size) = 1}
    IN  IF Len(regionMap) > 0 /\ hits # {}
        THEN (start + SetMin(hits)) % size
        ELSE (b * 13) % size

AuditoryLoopGoes(b, len, lineIdx) == b < len /\ lineIdx < AuditoryMaxLines

RECURSIVE AuditoryLoop(_, _, _, _)
AuditoryLoop(p, b, lineIdx, slots) ==
    IF ~AuditoryLoopGoes(b, Len(p.embedding.a), lineIdx)
    THEN [slots |-> slots, lineIdx |-> lineIdx]
    ELSE LET val       == p.embedding.a[b + 1]
             targetIdx == AuditoryTarget(p.regionMap, p.size, b)
             np        == PosAt(p.neuronPositions.a, targetIdx)
         IN  IF val < 5 THEN AuditoryLoop(p, b + 1, lineIdx, slots)
             ELSE IF targetIdx >= Len(p.neuronPositions.a) \/ np = NullPos
             THEN AuditoryLoop(p, b + 1, lineIdx, slots)
             ELSE AuditoryLoop(p, b + 1, lineIdx + 1,
                    [slots EXCEPT ![lineIdx] =
                        [p1 |-> IF np[1] < 0 THEN leftEar ELSE rightEar,
                         p2 |-> np,
                         c1 |-> << 2 * val, 10 * val, 4 * val >>,
                         c2 |-> << val, 8 * val, 2 * val >>,
                         n1 |-> b, n2 |-> targetIdx]])

AuditoryFlowFrame(p, buf) ==
    IF ~p.embedding.def \/ Len(p.embedding.a) = 0
       \/ ~p.neuronPositions.def \/ Len(p.neuronPositions.a) = 0
    THEN [slots |-> buf.slots, draw |-> 0]
    ELSE LET r == AuditoryLoop(p, 0, 0, buf.slots)
         IN  [slots |-> r.slots, draw |-> r.lineIdx * 2]

\* (mutant) cyan only when both ends are Association
PairColorBothAssociation(r1, r2) ==
    IF r1 = 1 /\ r2 = 1 THEN << 2, 10, 2 >>
    ELSE IF r1 = 0 /\ r2 = 0 THEN << 10, 8, 2 >>
    ELSE IF r1 = 2 /\ r2 = 2 THEN << 6, 1, 10 >>
    ELSE IF r1 = 3 /\ r2 = 3 THEN << 2, 7, 10 >>
    ELSE << 1, 3, 5 >>

\* region-pair colour, in tenths
PairColor(r1, r2) ==
    IF r1 = 1 /\ r2 = 1 THEN << 2, 10, 2 >>
    ELSE IF r1 = 0 /\ r2 = 0 THEN << 10, 8, 2 >>
    ELSE IF r1 = 2 /\ r2 = 2 THEN << 6, 1, 10 >>
    ELSE IF r1 = 3 \/ r2 = 3 THEN << 2, 7, 10 >>
    ELSE << 1, 3, 5 >>

HebbianLoopGoes(k, len, lineIdx) == k < len /\ lineIdx < HebbianMaxLines

\* (mutant) one active end is enough
CoActiveEither(vi, vj) == vi > 40 \/ vj > 40

\* vi > threshold && vj > threshold
CoActive(vi, vj) == vi > 40 /\ vj > 40

\* (mutant) the ends of a pair are not checked against the position set
PairOutOfRangeNever(i, j, len) == FALSE

\* i >= neuronPositions.length || j >= neuronPositions.length
PairOutOfRange(i, j, len) == i >= len \/ j >= len

RECURSIVE HebbianLoop(_, _, _, _, _)
HebbianLoop(p, pairs, k, lineIdx, slots) ==
    IF ~HebbianLoopGoes(k, Len(pairs), lineIdx)
    THEN [slots |-> slots, lineIdx |-> lineIdx, threw |-> FALSE]
    ELSE LET i  == pairs[k + 1][1]
             j  == pairs[k + 1][2]
             vi == ActivityAt(p.activity, i)
             vj == ActivityAt(p.activity, j)
             p1 == PosAt(p.neuronPositions.a, i)
             p2 == PosAt(p.neuronPositions.a, j)
             c  == PairColor(RegionAt(p.regionMap, i), RegionAt(p.regionMap, j))
             strength == Min(vi * vj, 10000)
             rgb == << c[1] * strength, c[2] * strength, c[3] * strength >>
         IN  IF ~CoActive(vi, vj) THEN HebbianLoop(p, pairs, k + 1, lineIdx, slots)
             ELSE IF PairOutOfRange(i, j, Len(p.neuronPositions.a))
             THEN HebbianLoop(p, pairs, k + 1, lineIdx, slots)
             ELSE IF p1 = NullPos \/ p2 = NullPos
             THEN [slots |-> slots, lineIdx |-> lineIdx, threw |-> TRUE]
             ELSE HebbianLoop(p, pairs, k + 1, lineIdx + 1,
                    [slots EXCEPT ![lineIdx] =
                        [p1 |-> p1, p2 |-> p2, c1 |-> rgb, c2 |-> rgb,
                         n1 |-> i, n2 |-> j]])

HebbianWebFrame(p, pairs, buf) ==
    IF Len(p.activity.a) = 0 \/ ~p.neuronPositions.def \/ Len(p.neuronPositions.a) = 0
    THEN [slots |-> buf.slots, draw |-> 0, threw |-> FALSE]
    ELSE LET r == HebbianLoop(p, pairs, 0, 0, buf.slots)
         IN  IF r.threw THEN [slots |-> r.slots, draw |-> buf.draw, threw |-> TRUE]
             ELSE [slots |-> r.slots, draw |-> r.lineIdx * 2, threw |-> FALSE]

\* material colour in hundredths, opacity in units of 1/10000
BRAIN_RADIUS == 35

\* the args of the ring's torusGeometry in a render: radius, tube thickness
\* (in thousandths), radial and tubular segments.  The geometry is built
\* anew whenever the args of a render differ from those of the render before.
TorusArgs(entropy) ==
    [radius |-> BRAIN_RADIUS + 5, tube |-> 300 + 8 * entropy,
     radialSegments |-> 16, tubularSegments |-> 64]

\* (mutant) the entropy threshold is tested before the trauma state
EntropyRingFrameEntropyFirst(p) ==
    LET e        == p.entropy
        isTrauma == p.traumaState = "Escalating" \/ p.traumaState = "Critical"
    IN  IF e > 70 THEN [color |-> << 80, 40, 10 >>, opacity |-> 3000 + 20 * e]
        ELSE IF isTrauma THEN [color |-> << 100, 20, 10 >>, opacity |-> 6000 + 30 * e]
        ELSE [color |-> << 15, 40, 80 >>, opacity |-> 1000 + 15 * e]

EntropyRingFrame(p) ==
    LET e        == p.entropy
        isTrauma == p.traumaState = "Escalating" \/ p.traumaState = "Critical"
    IN  IF isTrauma THEN [color |-> << 100, 20, 10 >>, opacity |-> 6000 + 30 * e]
        ELSE IF e > 70 THEN [color |-> << 80, 40, 10 >>, opacity |-> 3000 + 20 * e]
        ELSE [color |-> << 15, 40, 80 >>, opacity |-> 1000 + 15 * e]

(**************************************************************************)
(* Layout generators.  A generated point is kept in the polar form the    *)
(* generator draws it in: theta as the 16-bit fraction of its range,      *)
(* cosPhi = 2v - 1 in units of 2^-15, radius and size in thousandths; the *)
(* Cartesian coordinates are a fixed function of these.                   *)
(**************************************************************************)
NeocortexSeed == 1337
FrontalSeed == 999

\* one call of the closure: its state after the call and the word returned
Draw(a) ==
    LET a1 == Add32(a, MulberryIncrement)
    IN  [a |-> a1, w |-> MulberryOut(a1)]

\* lo + rng() * span, in thousandths
Scaled(w, lo, span) == lo + ((w[1] * span) \div H)

\* rng() > 0.5
AboveHalf(w) == w[1] > 32768 \/ (w[1] = 32768 /\ w[2] > 0)

\* (mutant) the generator is seeded differently on every invocation
mulberry32PerCall(seed, invocation) == << 0, seed + invocation >>

\* mulberry32(seed): the state of a new closure.  invocation is the number
\* of generator runs before this one; the closure does not depend on it.
mulberry32(seed, invocation) == << 0, seed >>

RECURSIVE NeocortexLoop(_, _, _)
NeocortexLoop(a, i, out) ==
    IF i >= MAX_NEURONS THEN out
    ELSE LET u  == Draw(a)
             v  == Draw(u.a)
             sz == Draw(v.a)
         IN  NeocortexLoop(sz.a, i + 1,
                Append(out, [theta |-> u.w[1], cosPhi |-> v.w[1] - 32768,
                             size |-> Scaled(sz.w, 500, 1000)]))

generateNeocortex(invocation) ==
    [positions     |-> NeocortexLoop(mulberry32(NeocortexSeed, invocation), 0, << >>),
     initialColors |-> [i \in 0 .. MAX_NEURONS - 1 |-> << 20, 40, 60 >>]]

RECURSIVE FrontalLoop(_, _, _)
FrontalLoop(a, i, out) ==
    IF i >= CONCEPTS THEN out
    ELSE LET u    == Draw(a)
             v    == Draw(u.a)
             r    == Draw(v.a)
             flip == Draw(r.a)
         IN  FrontalLoop(flip.a, i + 1,
                Append(out, [theta |-> u.w[1], cosPhi |-> v.w[1] - 32768,
                             r |-> Scaled(r.w, 12000, 8000),
                             flip |-> AboveHalf(flip.w)]))

generateFrontalLobe(invocation) ==
    [positions     |-> FrontalLoop(mulberry32(FrontalSeed, invocation), 0, << >>),
     initialColors |-> [i \in 0 .. CONCEPTS - 1 |-> ConceptDark]]

Generators == {"generateNeocortex", "generateFrontalLobe"}

\* one invocation of generator g, after the runs in before
LayoutRun(g, before) ==
    [gen |-> g,
     out |-> IF g = "generateFrontalLobe" THEN generateFrontalLobe(Len(before))
             ELSE generateNeocortex(Len(before))]

(**************************************************************************)
(* What the backend sends.  A message is binary (blob), or text that is   *)
(* not JSON (~valid), or text that parses to json.                        *)
(**************************************************************************)
Blob == [blob |-> TRUE, valid |-> FALSE, json |-> JNull]
BadText == [blob |-> FALSE, valid |-> FALSE, json |-> JNull]
Text(j) == [blob |-> FALSE, valid |-> TRUE, json |-> j]

\* position sets; all pairwise distances are integral
PNear == [k \in 1 .. MAX_NEURONS |-> << 3 * k - 5, 0, 0 >>]
POver == [k \in 1 .. MAX_NEURONS + 1 |-> << 2 * k - 4, 3, 0 >>]
POne == << << 5, 0, 0 >> >>
PFar == << << -40, 0, 0 >>, << 40, 0, 0 >> >>
PMid == << << 0, 0, 0 >>, << 7, 0, 0 >> >>
PSame == << << 2, 3, 4 >>, << 2, 3, 4 >> >>
PNull == << << 1, 0, 0 >>, NullPos, << 8, 0, 0 >> >>

AllOf(n, v) == [k \in 1 .. n |-> v]

\* a snapshot with every consumed field present, MAX_NEURONS + 1 nodes
Full ==
    [ reservoir_size     |-> MAX_NEURONS + 1,
      neuron_positions   |-> POver,
      reservoir_activity |-> Flat(AllOf(MAX_NEURONS + 1, 80)),
      activations        |-> AllOf(CONCEPTS, 60),
      region_map         |-> AllOf(MAX_NEURONS + 1, 0),
      audio_spectrum     |-> Embedding(AllOf(AuditoryMaxLines + 1, 30)),
      entropy            |-> 90,
      trauma_state       |-> "Critical",
      hebbian_events     |-> 2,
      dopamine           |-> 50 ]

ConsumedFields ==
    {"reservoir_size", "neuron_positions", "reservoir_activity", "activations",
     "region_map", "audio_spectrum"}

\* a smaller snapshot: two nodes, mixed regions, pair-list activity
Small ==
    [ reservoir_size     |-> 2,
      neuron_positions   |-> PMid,
      reservoir_activity |-> Pairs(<< << 0, 70 >>, << 1, 45 >> >>),
      activations        |-> << 15, 10 >>,
      region_map         |-> << 0, 1 >>,
      audio_spectrum     |-> Embedding(<< 4, 50 >>),
      entropy            |-> 80,
      trauma_state       |-> "Calm" ]

\* all nodes present, auditory and association regions, short activity
Near ==
    [ reservoir_size     |-> MAX_NEURONS,
      neuron_positions   |-> PNear,
      reservoir_activity |-> Flat(<< 90, 50 >>),
      activations        |-> << 40 >>,
      region_map         |-> << 3, 1, 2 >>,
      audio_spectrum     |-> Embedding(<< 20, 20 >>),
      entropy            |-> 20 ]

\* more nodes than MAX_NEURONS, of which only the last is Semantic
Over ==
    [ reservoir_size     |-> MAX_NEURONS + 1,
      neuron_positions   |-> POver,
      reservoir_activity |-> Flat(AllOf(MAX_NEURONS + 1, 50)),
      activations        |-> AllOf(CONCEPTS, 30),
      region_map         |-> [k \in 1 .. MAX_NEURONS + 1 |->
                                IF k = MAX_NEURONS + 1 THEN 0 ELSE 3],
      audio_spectrum     |-> Embedding(<< 0, 10 >>) ]

\* values on the thresholds: a concept at 0.05, a neuron at 0.4, an
\* escalating trauma with low entropy, a region tag outside 0..3
Edge ==
    [ reservoir_size     |-> MAX_NEURONS,
      neuron_positions   |-> PNear,
      reservoir_activity |-> Flat(<< 90, 40, 50 >>),
      activations        |-> << 5, 6 >>,
      region_map         |-> << 0, 7, 3 >>,
      audio_spectrum     |-> Embedding(<< 5, 4 >>),
      entropy            |-> 20,
      trauma_state       |-> "Escalating" ]

\* pair-list activity whose pairs are not in index order; entropy at 0.7
Reordered ==
    [ reservoir_size     |-> 2,
      neuron_positions   |-> PMid,
      reservoir_activity |-> Pairs(<< << 1, 70 >>, << 0, 10 >> >>),
      activations        |-> << 14, 16 >>,
      region_map         |-> << 0, 0 >>,
      entropy            |-> 70,
      trauma_state       |-> "Calm" ]

\* a reservoir that reports a size at the display minimum, with more
\* positions than that and its only Auditory node beyond the reported size
Tiny ==
    [ reservoir_size     |-> MIN_RAW_SIZE,
      neuron_positions   |-> PNear,
      reservoir_activity |-> Flat(<< 50 >>),
      activations        |-> << 20 >>,
      region_map         |-> [k \in 1 .. MAX_NEURONS |-> IF k = MIN_RAW_SIZE + 1 THEN 1 ELSE 3],
      audio_spectrum     |-> Embedding(<< 50, 50 >>),
      entropy            |-> 10 ]

\* fewer activations than concepts, Semantic nodes at indices beyond them
ShortConcepts == [Near EXCEPT !["region_map"] = << 3, 0, 0 >>]

WithPositions(base, ps) == [base EXCEPT !["neuron_positions"] = ps]

\* the runs of the backend the model follows: each is the set of messages
\* it may send, in any order and any number of times
Programmes ==
    { {Text(JObj(Full)), Text(JObj(Small)), Text(JObj(Near))},
      {Text(JObj(Full)), Text(JObj(Keep(Full, {"entropy"}))), Blob},
      {Text(JObj(WithPositions(Near, POne))), Text(JObj(WithPositions(Near, PFar))),
       Text(JObj(WithPositions(Near, PSame)))},
      {Text(JObj(WithPositions(Near, PNull))), Text(JObj(Near)),
       Text(JObj(WithPositions(Near, << << 1, 0, 0 >>, NullPos >>)))},
      {Text(JObj([Telemetry |-> JObj(Small)])), BadText, Text(JNull),
       Text(JObj(NoFields))},
      {Text(JStr(2)), Text(JArr(1)), Text(JNum(TRUE)), Text(JObj(Near))},
      {Text(JObj(Over)), Text(JObj(Small)), Text(JObj(Tiny))},
      {Text(JObj(Edge)), Text(JObj(Reordered)), Text(JObj(ShortConcepts)),
       Text(JObj(WithPositions(Edge, PMid))),
       Text(JObj(Keep(Full, (DOMAIN Full) \ {"region_map"})))} }

\* the fields the renderers read
RenderedFields == ConsumedFields \cup {"entropy", "trauma_state"}

\* one run per subset of the rendered fields: the full snapshot and the same
\* snapshot without the fields of the subset
MissingProgrammes ==
    { {Text(JObj(Full)), Text(JObj(Keep(Full, (DOMAIN Full) \ ks)))} :
        ks \in SUBSET RenderedFields }

(**************************************************************************)
(* State.                                                                 *)
(**************************************************************************)
VARIABLES
    inbox,        \* the messages the backend may send in this run
    arrivals,     \* messages delivered so far
    telemetry,    \* useAlephSocket: the current snapshot (JNull: none yet)
    history,      \* useAlephSocket: sparkline history
    debugInfo,    \* useAlephSocket: debug line
    view,         \* the props of the last render, per component
    pairsMemo,    \* HebbianWeb: the memoised candidate pairs
    hebbianGlow,  \* BrainScene: hebbianGlowRef.current, in hundredths
    ringGeometry, \* EntropyRing: the parameters of its torus geometry
    clock,        \* the frame clock
    connectome,   \* Connectome: position and colour buffers
    frontal,      \* FrontalLobe: colour buffer
    inject,       \* InjectFlow: line buffer and draw range
    auditory,     \* AuditoryFlow: line buffer and draw range
    hebbian,      \* HebbianWeb: line buffer and draw range
    ring,         \* EntropyRing: material colour and opacity
    frameLog,     \* bookkeeping: which snapshot each callback of the last frame
                  \* read (before: the frame before it), whether one threw,
                  \* and the nodes some frame left with a colour
    arrived,      \* bookkeeping: the last two snapshots the hook accepted
    layouts,      \* bookkeeping: what each run of a layout generator returned
    trial,        \* bookkeeping: the last two acceptance tests of the sampler
    audio         \* AudioCapture: its state, refs and the sessions it started

hookVars == << telemetry, history, debugInfo >>
sceneVars == << view, pairsMemo, hebbianGlow, ringGeometry >>
bufferVars == << connectome, frontal, inject, auditory, hebbian, ring >>
vars ==
    << inbox, arrivals, hookVars, sceneVars, clock, bufferVars, frameLog, arrived,
       layouts, trial, audio >>

\* the sessions startCapture may begin in one run
Sessions == 1 .. MaxSessions

\* AudioCapture as mounted: refs null (0), nothing started; stopped, sender
\* and afterStop are bookkeeping (stopCapture has returned and startCapture
\* has not been called since; the session that last sent a frame; that
\* frame was sent while stopped)
AudioMounted ==
    [sessions |-> [s \in Sessions |->
                     [mic |-> "none", ctx |-> "none", ws |-> "none",
                      processor |-> "none"]],
     started |-> 0, wsRef |-> 0, streamRef |-> 0, audioCtxRef |-> 0,
     processorRef |-> 0, isCapturing |-> FALSE, error |-> "",
     stopped |-> FALSE, sender |-> 0, afterStop |-> FALSE]

\* no acceptance test yet
NoTrial ==
    [tried |-> FALSE, d20 |-> 0, w1 |-> << 0, 0 >>, w2 |-> << 0, 0 >>,
     accepted |-> FALSE, draws |-> 0]

\* distances, in twentieths: 0.05, 1, 4.9, 4.95, 9.9, 1000
Distances == {1, 20, 98, 99, 198, 20000}

\* first draws: 0, the two around 0.5, the two around 100/101, the largest
Draws ==
    {<< 0, 0 >>, << 32767, 65535 >>, << 32768, 0 >>, << 64887, 8435 >>,
     << 64887, 8436 >>, << 65535, 65535 >>}

\* second draws: the last below 0.01, the first not below it, the largest
FlatDraws == {<< 655, 23592 >>, << 655, 23593 >>, << 65535, 65535 >>}

LineBuffer(cap) == [slots |-> [k \in 0 .. cap - 1 |-> ZeroSlot], draw |-> 2 * cap]

NotRun == -1

InitWith(programmes) ==
    /\ inbox \in programmes
    /\ arrivals = 0
    /\ telemetry = JNull
    /\ history = [key \in HistoryKeys |-> << >>]
    /\ debugInfo = "Initializing..."
    /\ view = Render(JNull)
    /\ pairsMemo = [dep |-> 0, pairs |-> << >>, attempts |-> 0, runs |-> 0]
    /\ hebbianGlow = 0
    /\ ringGeometry = TorusArgs(0)
    /\ clock = 0
    /\ connectome = [pos |-> [i \in Nodes |-> << 0, 0, 0 >>],
                     col |-> [i \in Nodes |-> << 200, 200, 400 >>]]
    /\ frontal = [i \in 0 .. CONCEPTS - 1 |-> ConceptDark]
    /\ inject = LineBuffer(InjectMaxLines)
    /\ auditory = LineBuffer(AuditoryMaxLines)
    /\ hebbian = LineBuffer(HebbianMaxLines)
    /\ ring = [color |-> << 13, 40, 67 >>, opacity |-> 1500]
    /\ frameLog = [fresh |-> FALSE, threw |-> FALSE,
                   read |-> [c \in Components |-> NotRun], before |-> NotRun,
                   lit |-> {}]
    /\ arrived = [latest |-> JNull, previous |-> JNull]
    /\ layouts = << LayoutRun("generateFrontalLobe", << >>) >>
    /\ trial = [cur |-> NoTrial, prev |-> NoTrial]
    /\ audio = AudioMounted

Init == InitWith(Programmes)

InitMissing == InitWith(MissingProgrammes)

\* the scene mounted, no message to come
InitLayout == InitWith({{}})

\* one run per assignment of region tags to the nodes: the full snapshot
\* with that region_map
RegionProgrammes ==
    { {Text(JObj([Full EXCEPT !["region_map"] = rm]))} :
        rm \in [1 .. MAX_NEURONS -> 0 .. 3] }

InitRegions == InitWith(RegionProgrammes)

(**************************************************************************)
(* The effect on lastMessage, with the render that setTelemetry causes:   *)
(* no frame callback reads the hook's state, only the props of the last   *)
(* render, so the state update and that render are one step.              *)
(**************************************************************************)
Reject(info) ==
    /\ debugInfo' = info
    /\ UNCHANGED << telemetry, history, sceneVars, frameLog, arrived >>

Accept(data) ==
    /\ telemetry' = setTelemetry(telemetry, data)
    /\ history' = updateHistory(history, data)
    /\ debugInfo' = "OK"
    /\ view' = Render(telemetry')
    /\ pairsMemo' = PairsMemo(pairsMemo, telemetry')
    /\ hebbianGlow' = HebbianGlow(hebbianGlow, telemetry, telemetry')
    /\ ringGeometry' = TorusArgs(view'.EntropyRing.entropy)
    /\ frameLog' = [frameLog EXCEPT !.fresh = FALSE]
    /\ arrived' = [latest |-> data, previous |-> arrived.latest]

Receive(m) ==
    /\ arrivals < MaxMessages
    /\ arrivals' = arrivals + 1
    /\ IF m.blob THEN Reject("WARN: Received Blob")
       ELSE IF ParseThrows(m) THEN Reject("ERR")
       ELSE IF Accepted(Unwrap(m.json))
       THEN Accept(Unwrap(Parse(m.json, arrivals + 1)))
       ELSE Reject("WARN: Parsed JSON has no keys or data is null")
    /\ UNCHANGED << inbox, clock, bufferVars, layouts, trial, audio >>

(**************************************************************************)
(* One tick of the frame clock: the useFrame callbacks in mount order.    *)
(* A callback that throws ends the tick.                                  *)
(**************************************************************************)
Frame ==
    LET cn == ConnectomeFrame(view.Connectome, clock, connectome)
        hb == HebbianWebFrame(view.HebbianWeb, pairsMemo.pairs, hebbian)
        ran(c) == view[c].gen
        lit == frameLog.lit \cup {i \in Nodes : cn.col[i] # << 0, 0, 0 >>}
    IN  /\ clock' = (clock + 1) % ClockPeriod
        /\ frontal' = FrontalLobeFrame(view.FrontalLobe)
        /\ connectome' = [pos |-> cn.pos, col |-> cn.col]
        /\ IF cn.threw
           THEN /\ UNCHANGED << inject, auditory, hebbian, ring >>
                /\ frameLog' = [fresh |-> TRUE, threw |-> TRUE,
                                read |-> [c \in Components |->
                                            IF c \in {"FrontalLobe", "Connectome"}
                                            THEN ran(c) ELSE NotRun],
                                before |-> frameLog.read["FrontalLobe"],
                                lit |-> lit]
           ELSE /\ inject' = InjectFlowFrame(view.InjectFlow, inject)
                /\ auditory' = AuditoryFlowFrame(view.AuditoryFlow, auditory)
                /\ hebbian' = [slots |-> hb.slots, draw |-> hb.draw]
                /\ ring' = IF hb.threw THEN ring ELSE EntropyRingFrame(view.EntropyRing)
                /\ frameLog' = [fresh |-> TRUE, threw |-> hb.threw,
                                read |-> [c \in Components |->
                                            IF c = "EntropyRing" /\ hb.threw
                                            THEN NotRun ELSE ran(c)],
                                before |-> frameLog.read["FrontalLobe"],
                                lit |-> lit]
        /\ UNCHANGED << inbox, arrivals, hookVars, sceneVars, arrived, layouts, trial,
                        audio >>

(**************************************************************************)
(* One more invocation of a layout generator (a mount of the scene).      *)
(**************************************************************************)
Generate(g) ==
    /\ Len(layouts) < MaxInvocations
    /\ layouts' = Append(layouts, LayoutRun(g, layouts))
    /\ UNCHANGED << inbox, arrivals, hookVars, sceneVars, clock, bufferVars,
                    frameLog, arrived, trial, audio >>

(**************************************************************************)
(* One acceptance test of the pair sampler, on a pair at distance d20 / 20 *)
(* with the draws w1 and w2 next in the stream.                           *)
(**************************************************************************)
TryPair(d20, w1, w2) ==
    /\ trial' = [cur |-> [tried |-> TRUE, d20 |-> d20, w1 |-> w1, w2 |-> w2,
                          accepted |-> PairAccepted(w1, w2, d20),
                          draws |-> PairDraws(w1, d20)],
                 prev |-> trial.cur]
    /\ UNCHANGED << inbox, arrivals, hookVars, sceneVars, clock, bufferVars,
                    frameLog, arrived, layouts, audio >>

(**************************************************************************)
(* AudioCapture: the button, the steps of startCapture and the callbacks  *)
(* of the sockets and processors it creates.                              *)
(**************************************************************************)
AudioStep(next) ==
    /\ audio' = next
    /\ UNCHANGED << inbox, arrivals, hookVars, sceneVars, clock, bufferVars,
                    frameLog, arrived, layouts, trial >>

\* a click while the button shows "Stream Mic": startCapture up to its await
StartClick ==
    /\ ~audio.isCapturing
    /\ audio.started < MaxSessions
    /\ AudioStep([audio EXCEPT !.started = @ + 1,
                               !.sessions[audio.started + 1].mic = "asking",
                               !.error = "",
                               !.stopped = FALSE,
                               !.afterStop = FALSE])

\* getUserMedia resolves: the rest of startCapture's try block
MicGranted(s) ==
    /\ audio.sessions[s].mic = "asking"
    /\ AudioStep([audio EXCEPT !.sessions[s] = [mic |-> "live", ctx |-> "open",
                                                ws |-> "connecting",
                                                processor |-> "none"],
                               !.streamRef = s,
                               !.audioCtxRef = s,
                               !.wsRef = s])

\* getUserMedia rejects: the catch block
MicDenied(s) ==
    /\ audio.sessions[s].mic = "asking"
    /\ AudioStep([audio EXCEPT !.sessions[s].mic = "denied",
                               !.error = "Mic access denied"])

\* ws.onopen of session s
WsOpen(s) ==
    /\ audio.sessions[s].ws = "connecting"
    /\ AudioStep([audio EXCEPT !.sessions[s].ws = "open",
                               !.sessions[s].processor = "connected",
                               !.processorRef = s,
                               !.isCapturing = TRUE])

\* ws.onerror of session s; the socket then closes
WsError(s) ==
    /\ audio.sessions[s].ws \in {"connecting", "open"}
    /\ AudioStep([audio EXCEPT !.sessions[s].ws = "closing",
                               !.error = "WebSocket connection failed"])

\* ws.onclose of session s: the server closed it, or a close() or an error
\* came before
WsClose(s) ==
    /\ audio.sessions[s].ws \in {"connecting", "open", "closing"}
    /\ AudioStep([audio EXCEPT !.sessions[s].ws = "closed",
                               !.isCapturing = FALSE])

\* processor.onaudioprocess of session s while its socket is OPEN (it
\* returns at once otherwise): one frame is sent
AudioProcess(s) ==
    /\ audio.sessions[s].processor = "connected"
    /\ audio.sessions[s].ctx = "open"
    /\ audio.sessions[s].ws = "open"
    /\ AudioStep([audio EXCEPT !.sender = s, !.afterStop = audio.stopped])

\* a click while the button shows "Stop Listening": stopCapture
StopClick ==
    /\ audio.isCapturing
    /\ AudioStep([audio EXCEPT
          !.sessions = [s \in Sessions |->
              [mic |-> IF s = audio.streamRef THEN "stopped" ELSE @[s].mic,
               ctx |-> IF s = audio.audioCtxRef THEN "closed" ELSE @[s].ctx,
               ws  |-> IF s = audio.wsRef /\ @[s].ws \in {"connecting", "open"}
                       THEN "closing" ELSE @[s].ws,
               processor |-> IF s = audio.processorRef THEN "disconnected"
                             ELSE @[s].processor]],
          !.processorRef = 0,
          !.audioCtxRef = 0,
          !.streamRef = 0,
          !.wsRef = 0,
          !.isCapturing = FALSE,
          !.stopped = TRUE])

Next ==
    \/ \E m \in inbox : Receive(m)
    \/ Frame

Spec == Init /\ [][Next]_vars

SpecMissing == InitMissing /\ [][Next]_vars

\* the render loop keeps calling the frame callbacks while the scene is
\* mounted; the backend may stop sending at any time
SpecFair == Init /\ [][Next]_vars /\ WF_vars(Frame)

SpecRegions == InitRegions /\ [][Next]_vars

NextLayout == \E g \in Generators : Generate(g)

SpecLayout == InitLayout /\ [][NextLayout]_vars

NextSampler ==
    \E d20 \in Distances : \E w1 \in Draws : \E w2 \in FlatDraws : TryPair(d20, w1, w2)

SpecSampler == InitLayout /\ [][NextSampler]_vars

NextAudio ==
    \/ StartClick
    \/ StopClick
    \/ \E s \in Sessions : MicGranted(s)
    \/ \E s \in Sessions : MicDenied(s)
    \/ \E s \in Sessions : WsOpen(s)
    \/ \E s \in Sessions : WsError(s)
    \/ \E s \in Sessions : WsClose(s)
    \/ \E s \in Sessions : AudioProcess(s)

SpecAudio == InitLayout /\ [][NextAudio]_vars

(**************************************************************************)
(* Properties.                                                            *)
(**************************************************************************)
Origin == << 0, 0, 0 >>

\* the last step of the frame clock ran every callback to its end, and no
\* snapshot has been accepted since
LastFrameCompleted == frameLog.fresh /\ ~frameLog.threw

\* the active count of a snapshot: its backend positions, at most MAX_NEURONS
SnapshotCount(tel) ==
    IF Has(tel, "neuron_positions")
    THEN Min(Len(tel.f["neuron_positions"]), MAX_NEURONS)
    ELSE 0

\* the lines of a line buffer that are inside its draw range
Drawn(buf) == {buf.slots[k] : k \in 0 .. (buf.draw \div 2) - 1}

C2_DrawWithinCapacity ==
    /\ inject.draw <= 2 * InjectMaxLines
    /\ auditory.draw <= 2 * AuditoryMaxLines
    /\ hebbian.draw <= 2 * HebbianMaxLines

\* a frame on a snapshot that offers every layer more lines than it can hold
C2_Witness ==
    /\ LastFrameCompleted
    /\ telemetry.f = Full
    /\ Len(pairsMemo.pairs) > HebbianMaxLines
    /\ inject.draw = 2 * InjectMaxLines
    /\ auditory.draw = 2 * AuditoryMaxLines
    /\ hebbian.draw = 2 * HebbianMaxLines

SceneWithPositions == {"Connectome", "InjectFlow", "AuditoryFlow", "HebbianWeb"}
SceneWithRegions == {"Connectome", "InjectFlow", "AuditoryFlow", "HebbianWeb"}

\* every field that tel lacks is handed to the renderers as its default
AbsentFieldsDefault(tel) ==
    /\ ~Has(tel, "reservoir_activity") =>
          /\ view.Connectome.activity = Flat(<< >>)
          /\ view.HebbianWeb.activity = Flat(<< >>)
    /\ ~Has(tel, "activations") =>
          /\ view.FrontalLobe.activations = << >>
          /\ view.InjectFlow.activations = << >>
    /\ ~Has(tel, "region_map") =>
          \A c \in SceneWithRegions : view[c].regionMap = << >>
    /\ ~Has(tel, "neuron_positions") =>
          /\ \A c \in SceneWithPositions : view[c].neuronPositions = NoPositions
          /\ pairsMemo.pairs = << >>
    /\ ~Has(tel, "audio_spectrum") => view.AuditoryFlow.embedding = NoEmbedding
    /\ ~Has(tel, "reservoir_size") =>
          \A c \in {"InjectFlow", "AuditoryFlow", "HebbianWeb"} :
              view[c].size = (MAX_NEURONS * 8) \div 10
    /\ ~Has(tel, "entropy") => view.EntropyRing.entropy = 0
    /\ ~Has(tel, "trauma_state") => view.EntropyRing.traumaState = ""

\* C3: the current snapshot is the last accepted one, whole and unmerged:
\* a field it lacks is read as its default even when the snapshot before
\* had it.
C3_WhollyReplaced ==
    /\ telemetry = arrived.latest
    /\ AbsentFieldsDefault(arrived.latest)

\* the snapshot before the current one had a consumed field that the
\* current one lacks
C3_Witness ==
    /\ arrived.latest.t = "obj"
    /\ (DOMAIN arrived.previous.f) \cap ConsumedFields
          \notin SUBSET (DOMAIN arrived.latest.f)

\* C4: the props of all six components, and the sampled pair list, come
\* from one and the same snapshot, and all callbacks of a frame read that
\* one snapshot.
C4_NoTornReads ==
    /\ view = Render(telemetry)
    /\ pairsMemo.pairs = SamplePairs(view.HebbianWeb.neuronPositions).pairs
    /\ \A c, d \in Components :
          frameLog.read[c] # NotRun /\ frameLog.read[d] # NotRun
              => frameLog.read[c] = frameLog.read[d]
    /\ frameLog.fresh =>
          \A c \in Components : frameLog.read[c] \in {NotRun, telemetry.id}

\* a frame on the second or a later snapshot, whose positions differ from
\* those of the snapshot before, and with pairs to draw
C4_Witness ==
    /\ LastFrameCompleted
    /\ \A c \in Components : frameLog.read[c] = telemetry.id
    /\ Has(arrived.previous, "neuron_positions")
    /\ Has(telemetry, "neuron_positions")
    /\ arrived.previous.f["neuron_positions"] # telemetry.f["neuron_positions"]
    /\ Len(pairsMemo.pairs) > 0

\* the snapshot the last frame rendered
Rendered == frameLog.read["FrontalLobe"]

\* C5: a frame renders the snapshot accepted last, whatever arrived since
\* the frame before it, and the snapshots that frames render never go back
\* in arrival order.
C5_LatestWins ==
    /\ [](frameLog.fresh => Rendered = arrived.latest.id)
    /\ [][Rendered' >= Rendered]_vars

\* two snapshots were accepted between two frames: the first of the two was
\* never rendered
C5_Witness ==
    /\ frameLog.fresh
    /\ Rendered = arrived.latest.id
    /\ frameLog.before < arrived.previous.id
    /\ arrived.previous.id < arrived.latest.id

FloorColor == << 400, 400, 800 >>

\* C6: with any subset of the consumed fields absent, or with no snapshot at
\* all, no callback throws, and a layer whose input is absent draws no line
\* or only dark nodes.
C6_MissingDataHarmless ==
    /\ ~frameLog.threw
    /\ frameLog.fresh =>
          /\ ~Has(telemetry, "neuron_positions") =>
                /\ inject.draw = 0 /\ auditory.draw = 0 /\ hebbian.draw = 0
                /\ \A i \in Nodes :
                      connectome.pos[i] = Origin /\ connectome.col[i] = Origin
          /\ ~Has(telemetry, "activations") =>
                /\ inject.draw = 0
                /\ \A i \in 0 .. CONCEPTS - 1 : frontal[i] = ConceptDark
          /\ ~Has(telemetry, "region_map") => inject.draw = 0
          /\ ~Has(telemetry, "audio_spectrum") => auditory.draw = 0
          /\ ~Has(telemetry, "reservoir_activity") =>
                /\ hebbian.draw = 0
                /\ \A i \in Nodes :
                      i < SnapshotCount(telemetry) => connectome.col[i] = FloorColor

\* a frame on a snapshot without activations, after a frame that drew
\* Inject-Flow lines
C6_Witness ==
    /\ frameLog.fresh
    /\ telemetry.t = "obj"
    /\ ~Has(telemetry, "activations")
    /\ Has(telemetry, "neuron_positions")
    /\ inject.slots[0].n2 # -1
    /\ inject.draw = 0

\* C7: no drawn line of Inject-Flow, Auditory-Flow or Hebbian-Web ends at a
\* node index at or above MAX_NEURONS (the Connectome buffers have no such
\* index).
C7_OverCapacityClamped ==
    /\ DOMAIN connectome.pos = Nodes /\ DOMAIN connectome.col = Nodes
    /\ \A l \in Drawn(inject) \cup Drawn(auditory) : l.n2 < MAX_NEURONS
    /\ \A l \in Drawn(hebbian) : l.n1 < MAX_NEURONS /\ l.n2 < MAX_NEURONS

SampledPairs == {pairsMemo.pairs[k] : k \in 1 .. Len(pairsMemo.pairs)}

\* C8: every sampled pair (i, j) has i # j and both indices in
\* 0 .. count-1, count being the number of backend positions, at most
\* MAX_NEURONS.
C8_PairsDistinctInRange ==
    \A pr \in SampledPairs :
        /\ pr[1] # pr[2]
        /\ pr[1] >= 0 /\ pr[1] < SnapshotCount(telemetry)
        /\ pr[2] >= 0 /\ pr[2] < SnapshotCount(telemetry)

\* pairs sampled from a position set longer than MAX_NEURONS
C8_Witness ==
    /\ Has(telemetry, "neuron_positions")
    /\ Len(telemetry.f["neuron_positions"]) > MAX_NEURONS
    /\ Len(pairsMemo.pairs) > 0

\* C9: the sampler makes at most MaxAttempts attempts and returns at most
\* TargetPairs pairs, and on a non-empty position set it stops exactly when
\* one of the two is reached.
C9_SamplerBounded ==
    /\ pairsMemo.attempts <= MaxAttempts
    /\ Len(pairsMemo.pairs) <= TargetPairs
    /\ SnapshotCount(telemetry) > 0 =>
          Len(pairsMemo.pairs) = TargetPairs \/ pairsMemo.attempts = MaxAttempts

\* a degenerate position set (one node, coincident nodes or a null entry)
\* on which the attempts run out before the target is reached
C9_Witness ==
    /\ SnapshotCount(telemetry) > 0
    /\ telemetry.f["neuron_positions"] \in {POne, PNull}
    /\ pairsMemo.attempts = MaxAttempts
    /\ Len(pairsMemo.pairs) < TargetPairs

\* the neuron_positions of two snapshots have the same content
SamePositions(a, b) ==
    /\ Has(a, "neuron_positions") = Has(b, "neuron_positions")
    /\ Has(a, "neuron_positions") => a.f["neuron_positions"] = b.f["neuron_positions"]

\* C10: the sampler does not run in a step that leaves the content of the
\* position set as it was (a frame, or a snapshot with the same
\* neuron_positions as the one before).
C10_ResampledOnlyOnChange ==
    [][SamePositions(telemetry, telemetry') => pairsMemo'.runs = pairsMemo.runs]_vars


\* the step is a frame that comes right after a frame, with no snapshot
\* accepted in between: both render the same snapshot
SecondFrameOfSnapshot == frameLog.fresh /\ clock' # clock

Abs(x) == IF x < 0 THEN -x ELSE x

\* twice the amplitude of the jitter (0.15), in units of 0.05
JitterSpan == 2 * Wave(1)

\* C11 (as stated): the second of two consecutive frames on one snapshot
\* leaves every buffer (node positions and colours, line positions and
\* colours, draw counts) as the first left it.
C11_Idempotent ==
    [][SecondFrameOfSnapshot => bufferVars' = bufferVars]_vars

\* C11 (amended): the second of two consecutive frames on one snapshot leaves
\* the colour buffers, the line buffers, the draw counts and the ring as the
\* first left them; a Connectome node position moves by the time-based
\* jitter only, at most twice its amplitude on each axis, and an inactive
\* node does not move.
C11_IdempotentButJitter ==
    [][SecondFrameOfSnapshot =>
          /\ connectome'.col = connectome.col
          /\ << frontal, inject, auditory, hebbian, ring >>'
                = << frontal, inject, auditory, hebbian, ring >>
          /\ \A i \in Nodes : \A x \in 1 .. 3 :
                /\ Abs(connectome'.pos[i][x] - connectome.pos[i][x]) <= JitterSpan
                /\ i >= SnapshotCount(telemetry) =>
                      connectome'.pos[i] = connectome.pos[i]
      ]_vars

\* two consecutive frames rendered one snapshot that lights nodes and draws
\* lines in every line layer
C11_Witness ==
    /\ LastFrameCompleted
    /\ Rendered > 0
    /\ frameLog.before = Rendered
    /\ inject.draw > 0 /\ auditory.draw > 0 /\ hebbian.draw > 0
    /\ \E i \in Nodes : connectome.col[i] # Origin


\* the length of the current snapshot's reservoir_activity (0 when absent)
ActivityLen(tel) ==
    IF Has(tel, "reservoir_activity") THEN Len(tel.f["reservoir_activity"].a) ELSE 0

\* C12: after a frame on a snapshot whose reservoir_activity is shorter than
\* its node count, every active node at or beyond the length of the array
\* has the colour of activation 0 (the ambient floor, no region colour and
\* no flash), and no drawn Hebbian-Web line has such a node at either end.
C12_ShortActivityInactive ==
    LastFrameCompleted =>
        /\ \A i \in Nodes :
              i >= ActivityLen(telemetry) /\ i < SnapshotCount(telemetry)
                  => connectome.col[i] = FloorColor
        /\ \A l \in Drawn(hebbian) :
              l.n1 < ActivityLen(telemetry) /\ l.n2 < ActivityLen(telemetry)

\* a frame on a snapshot with fewer activations than nodes: a node inside
\* the array is lit, and a sampled pair joins a co-active node inside the
\* array to a node beyond it
C12_Witness ==
    /\ LastFrameCompleted
    /\ ActivityLen(telemetry) > 0
    /\ ActivityLen(telemetry) < SnapshotCount(telemetry)
    /\ \E i \in Nodes : i < ActivityLen(telemetry) /\ connectome.col[i] # FloorColor
    /\ \E pr \in SampledPairs :
          /\ pr[1] < ActivityLen(telemetry) /\ pr[2] >= ActivityLen(telemetry)
          /\ ActivityAt(telemetry.f["reservoir_activity"], pr[1]) > 40
    /\ hebbian.draw = 0


\* activations[i] of a snapshot, 0 when the snapshot has no such entry
ConceptActivation(tel, i) ==
    IF Has(tel, "activations") THEN NumAt0(tel.f["activations"], i) ELSE 0

\* C13: after a frame, concept node i is lit exactly when activations[i] of
\* the current snapshot exceeds 0.05; a lit node has the gold colour of
\* that one activation and every other node, a node without an entry
\* included, has the dark colour.
C13_ConceptColorByActivation ==
    frameLog.fresh =>
        \A i \in 0 .. CONCEPTS - 1 :
            LET a == ConceptActivation(telemetry, i)
            IN  /\ frontal[i] # ConceptDark <=> a > 5
                /\ a > 5 => frontal[i] = << 9 * a + 100, 5 * a, 2 * a >>

\* a frame on a snapshot with one concept exactly on the threshold and one
\* just above it
C13_Witness ==
    /\ frameLog.fresh
    /\ \E i, j \in 0 .. CONCEPTS - 1 :
          /\ ConceptActivation(telemetry, i) = 5 /\ frontal[i] = ConceptDark
          /\ ConceptActivation(telemetry, j) = 6 /\ frontal[j] # ConceptDark

\* a concept without an entry went dark after a snapshot that had lit it
C13_WitnessNoEntry ==
    /\ frameLog.fresh
    /\ Has(telemetry, "activations")
    /\ Has(arrived.previous, "activations")
    /\ \E i \in 0 .. CONCEPTS - 1 :
          /\ ~InRange(telemetry.f["activations"], i)
          /\ ConceptActivation(arrived.previous, i) > 5
          /\ frontal[i] = ConceptDark

\* the snapshot's region tag of node i (NoRegion when it has none)
SnapshotRegion(tel, i) ==
    IF Has(tel, "region_map") THEN RegionAt(tel.f["region_map"], i) ELSE NoRegion

\* C14: every drawn Inject-Flow line ends at a node tagged Semantic and
\* starts at a concept whose activation is strictly greater than 0.15.
C14_InjectAboveFloor ==
    LastFrameCompleted =>
        \A l \in Drawn(inject) :
            /\ SnapshotRegion(telemetry, l.n2) = 0
            /\ ConceptActivation(telemetry, l.n1) > 15

\* the colour branches of the ring
RingRed == << 100, 20, 10 >>
RingOrange == << 80, 40, 10 >>
RingBlue == << 15, 40, 80 >>

\* the ring callback of the last frame ran, on the current snapshot
RingRendered == frameLog.fresh /\ frameLog.read["EntropyRing"] # NotRun

\* C15: the ring is red when trauma_state is Escalating or Critical,
\* whatever the entropy; else orange when the entropy exceeds 0.7; else blue.
C15_TraumaPrecedesEntropy ==
    RingRendered =>
        LET trauma == IF Has(telemetry, "trauma_state")
                      THEN telemetry.f["trauma_state"] ELSE ""
            e      == NumField(telemetry, "entropy")
        IN  ring.color =
                IF trauma \in {"Escalating", "Critical"} THEN RingRed
                ELSE IF e > 70 THEN RingOrange
                ELSE RingBlue

\* a frame on a snapshot with trauma_state Critical and entropy 0.9
C15_Witness ==
    /\ RingRendered
    /\ Has(telemetry, "trauma_state") /\ telemetry.f["trauma_state"] = "Critical"
    /\ NumField(telemetry, "entropy") = 90
    /\ ring.color = RingRed

\* the activation of node i in the current snapshot, as the renderers read it
NodeActivation(tel, i) ==
    IF Has(tel, "reservoir_activity") THEN ActivityAt(tel.f["reservoir_activity"], i)
    ELSE 0

\* C16: every drawn Hebbian-Web line joins a sampled pair whose two nodes
\* both have an activation above 0.4 in the current snapshot.
C16_HebbianCoActive ==
    LastFrameCompleted =>
        \A l \in Drawn(hebbian) :
            /\ << l.n1, l.n2 >> \in SampledPairs
            /\ NodeActivation(telemetry, l.n1) > 40
            /\ NodeActivation(telemetry, l.n2) > 40

\* a frame that drew one sampled pair and left out a sampled pair with one
\* end exactly at 0.4 and the other above it
C16_Witness ==
    /\ LastFrameCompleted
    /\ hebbian.draw > 0
    /\ \E pr \in SampledPairs :
          /\ NodeActivation(telemetry, pr[1]) > 40
          /\ NodeActivation(telemetry, pr[2]) = 40
          /\ \A l \in Drawn(hebbian) : << l.n1, l.n2 >> # pr


\* C17: after a frame on a snapshot that reports a reservoir_size, the nodes
\* rendered active (given a position and a colour) are exactly the indices
\* below reservoir_size, at most MAX_NEURONS; the others are at the origin
\* with colour (0,0,0).
C17_ActiveCountIsReservoirSize ==
    LastFrameCompleted /\ Has(telemetry, "reservoir_size") =>
        \A i \in Nodes :
            IF i < Min(telemetry.f["reservoir_size"], MAX_NEURONS)
            THEN connectome.col[i] # Origin
            ELSE connectome.col[i] = Origin /\ connectome.pos[i] = Origin

\* node i has no region tag in the snapshot: no region_map, a region_map
\* that ends before i, or a value outside 0..3
Unmapped(tel, i) == SnapshotRegion(tel, i) \notin 0 .. 3

\* the colour of an active node whose palette is that of Association
AssociationColor(val) ==
    LET intensity == Max(0, val)
    IN  << 1 * intensity * 20 + intensity * intensity + 400,
           3 * intensity * 20 + intensity * intensity + 400,
           5 * intensity * 20 + intensity * intensity + 800 >>

\* the colour of a Hebbian-Web line with an Association end (cyan)
CyanLine(vi, vj) ==
    LET strength == Min(vi * vj, 10000)
    IN  << 2 * strength, 7 * strength, 10 * strength >>

\* C18: after a frame, a node without a region tag is rendered as
\* Association: its Connectome colour uses the Association palette, a drawn
\* Hebbian-Web line with such a node at either end is cyan, and no drawn
\* Inject-Flow line ends at it.
C18_UnmappedIsAssociation ==
    LastFrameCompleted =>
        /\ \A i \in Nodes :
              i < SnapshotCount(telemetry) /\ Unmapped(telemetry, i) =>
                  connectome.col[i] = AssociationColor(NodeActivation(telemetry, i))
        /\ \A l \in Drawn(hebbian) :
              Unmapped(telemetry, l.n1) \/ Unmapped(telemetry, l.n2) =>
                  l.c1 = CyanLine(NodeActivation(telemetry, l.n1),
                                  NodeActivation(telemetry, l.n2))
        /\ \A l \in Drawn(inject) : ~Unmapped(telemetry, l.n2)

\* the value of the pair of a pair list whose index is n, 0 when there is none
ByIndex(a, n) ==
    LET ks == {k \in 1 .. Len(a) : a[k][1] = n}
    IN  IF ks = {} THEN 0 ELSE a[SetMin(ks)][2]

\* the flat array that encodes the same per-node activations as a pair list
FlatOf(a) == Flat([k \in 1 .. MAX_NEURONS + 1 |-> ByIndex(a, k - 1)])

\* C19: after a frame on a snapshot whose reservoir_activity is a pair
\* list, the Connectome colours and the drawn Hebbian-Web lines are those
\* that the flat array of the same per-node activations gives.
C19_ShapesEquivalent ==
    LastFrameCompleted /\ Has(telemetry, "reservoir_activity")
        /\ telemetry.f["reservoir_activity"].shape = "pairs" =>
        LET flat == FlatOf(telemetry.f["reservoir_activity"].a)
            pc   == [view.Connectome EXCEPT !.activity = flat]
            ph   == [view.HebbianWeb EXCEPT !.activity = flat]
        IN  /\ \A i \in Nodes :
                  i < SnapshotCount(telemetry) =>
                      connectome.col[i] = ConnectomeColor(pc, i)
            /\ Drawn(hebbian) = Drawn(HebbianWebFrame(ph, pairsMemo.pairs, hebbian))


ScanTarget(tel, n, b) ==
    LET start == (b * 5) % n
        hits  == {k \in 0 .. n - 1 : SnapshotRegion(tel, (start + k) % n) = 1}
    IN  IF hits = {} THEN (b * 13) % n ELSE (start + SetMin(hits)) % n

\* the node count a snapshot reports, at most MAX_NEURONS
ReportedCount(tel) == Min(NumField(tel, "reservoir_size"), MAX_NEURONS)

\* C21: every drawn Auditory-Flow line of band b ends at the first
\* Auditory-tagged index of a cyclic scan of N indices from (b * 5) mod N,
\* or at (b * 13) mod N when there is none, N being the node count the
\* snapshot reports.
C21_AuditoryTargetScan ==
    LastFrameCompleted /\ ReportedCount(telemetry) > 0 =>
        \A l \in Drawn(auditory) :
            l.n2 = ScanTarget(telemetry, ReportedCount(telemetry), l.n1)


\* C22: every drawn Inject-Flow line to node i starts at concept
\* i mod 512 (the number of concepts), at that concept's generated position,
\* whatever the length of the activations array.
C22_InjectPairsByConceptCount ==
    LastFrameCompleted =>
        \A l \in Drawn(inject) :
            l.n1 = l.n2 % CONCEPTS /\ l.p1 = FrontVec(l.n2 % CONCEPTS)


\* the colour categories of Hebbian-Web lines, in tenths
Gold == << 10, 8, 2 >>
Green == << 2, 10, 2 >>
Purple == << 6, 1, 10 >>
Cyan == << 2, 7, 10 >>
DimBlueGrey == << 1, 3, 5 >>

\* the region-pair lookup, in the stated precedence (tags: 0 Semantic,
\* 1 Auditory, 2 Limbic, 3 Association)
RegionPairCategory(r1, r2) ==
    IF r1 = 0 /\ r2 = 0 THEN Gold
    ELSE IF r1 = 1 /\ r2 = 1 THEN Green
    ELSE IF r1 = 2 /\ r2 = 2 THEN Purple
    ELSE IF r1 = 3 \/ r2 = 3 THEN Cyan
    ELSE DimBlueGrey

\* the region tag pairs of the drawn Hebbian-Web lines
DrawnTagPairs ==
    {<< SnapshotRegion(telemetry, l.n1), SnapshotRegion(telemetry, l.n2) >> :
        l \in Drawn(hebbian)}

\* C23: both ends of a drawn Hebbian-Web line have the colour of the
\* category that the region-pair lookup gives for the tags of its two
\* nodes, scaled by the strength of the line, for each of the 16 tag pairs.
C23_RegionPairLookup ==
    LastFrameCompleted =>
        \A l \in Drawn(hebbian) :
            LET r1 == SnapshotRegion(telemetry, l.n1)
                r2 == SnapshotRegion(telemetry, l.n2)
                strength == Min(NodeActivation(telemetry, l.n1)
                                  * NodeActivation(telemetry, l.n2), 10000)
                cat == RegionPairCategory(r1, r2)
            IN  r1 \in 0 .. 3 /\ r2 \in 0 .. 3 =>
                    /\ l.c1 = << cat[1] * strength, cat[2] * strength, cat[3] * strength >>
                    /\ l.c2 = l.c1

\* a frame that drew a line between an Association node and an Auditory
\* node (cyan) and a line between a Semantic node and an Auditory node (dim)
C23_Witness ==
    /\ LastFrameCompleted
    /\ \E a, b \in DrawnTagPairs :
          /\ 3 \in {a[1], a[2]} /\ 1 \in {a[1], a[2]}
          /\ 0 \in {b[1], b[2]} /\ 1 \in {b[1], b[2]}
    /\ \E l \in Drawn(hebbian) : l.c1[1] * 7 = l.c1[2] * 2 /\ l.c1[1] > 0
    /\ \E l \in Drawn(hebbian) : l.c1[1] * 3 = l.c1[2] /\ l.c1[1] > 0


\* C24: in every state the geometry of the ring has the radius, tube
\* thickness and segment counts it was created with at mount, whatever
\* snapshots have arrived.
C24_RingGeometryFixed == ringGeometry = TorusArgs(0)


\* the length of a snapshot's neuron_positions (0 when absent)
PositionsLen(tel) ==
    IF Has(tel, "neuron_positions") THEN Len(tel.f["neuron_positions"]) ELSE 0

\* node i is inside the snapshot's position set and its entry there is null
NullEntry(tel, i) ==
    i < PositionsLen(tel) /\ PosAt(tel.f["neuron_positions"], i) = NullPos

\* candidate pairs computed against the position set of the snapshot
\* before the current one
StalePairs ==
    IF Has(arrived.previous, "neuron_positions")
    THEN SamplePairs(Positions(arrived.previous.f["neuron_positions"])).pairs
    ELSE << >>

\* what the Hebbian-Web callback does on the current props with stale pairs
StaleHebbianFrame == HebbianWebFrame(view.HebbianWeb, StalePairs, hebbian)

\* C25: no drawn line of any layer ends at an index outside the current
\* neuron_positions; a frame callback fails only on a null entry inside
\* the position set, never on an index outside it; and the Hebbian-Web
\* callback run on pairs sampled against the previous position set draws no
\* line to an index outside the current one and fails on none.
C25_OutOfRangeSkipped ==
    /\ LastFrameCompleted =>
          /\ \A l \in Drawn(inject) \cup Drawn(auditory) :
                l.n2 >= 0 /\ l.n2 < PositionsLen(telemetry)
          /\ \A l \in Drawn(hebbian) :
                /\ l.n1 >= 0 /\ l.n1 < PositionsLen(telemetry)
                /\ l.n2 >= 0 /\ l.n2 < PositionsLen(telemetry)
    /\ frameLog.fresh /\ frameLog.threw =>
          \E i \in Nodes : NullEntry(telemetry, i)
    /\ IF StaleHebbianFrame.threw
       THEN \E k \in 1 .. Len(StalePairs) :
               NullEntry(telemetry, StalePairs[k][1]) \/ NullEntry(telemetry, StalePairs[k][2])
       ELSE \A l \in Drawn(StaleHebbianFrame) :
               l.n1 < PositionsLen(telemetry) /\ l.n2 < PositionsLen(telemetry)

\* the position set shrank: a pair sampled against the previous one has
\* two co-active ends, one of them beyond the current set; the last frame
\* ran to its end
C25_Witness ==
    /\ LastFrameCompleted
    /\ PositionsLen(telemetry) > 0
    /\ \E k \in 1 .. Len(StalePairs) :
          /\ StalePairs[k][1] < PositionsLen(telemetry)
          /\ StalePairs[k][2] >= PositionsLen(telemetry)
          /\ CoActive(NodeActivation(telemetry, StalePairs[k][1]),
                      NodeActivation(telemetry, StalePairs[k][2]))


\* the largest draw word below 100 * 2^32 / (d20 + 2), by long division:
\* hi at or above 2^16 means every draw is below it
ProbWord(d20) ==
    LET m  == d20 + 2
        hi == (100 * H) \div m
        r  == (100 * H) % m
        lo == (r * H) \div m
        r2 == (r * H) % m
    IN  [hi |-> hi, lo |-> lo, exact |-> r2 = 0]

\* the draw w, as a fraction of 2^32, is below min(1, 5.0 / (d + 0.1))
BelowProbability(w, d20) ==
    LET t == ProbWord(d20)
    IN  \/ w[1] < t.hi
        \/ w[1] = t.hi /\ w[2] < t.lo
        \/ w[1] = t.hi /\ w[2] = t.lo /\ ~t.exact

\* the draw w, as a fraction of 2^32, is below 0.01: 100 w < 2^32
BelowOnePercent(w) == (100 * w[1]) + ((100 * w[2]) \div H) < H

\* C26: a pair at distance d is accepted iff the first draw is below
\* min(1, 5.0 / (d + 0.1)) or the second draw is below 0.01; a pair with
\* 5.0 / (d + 0.1) >= 1 is always accepted; with the same two draws, a pair
\* accepted at one distance is accepted at every smaller one; and a second
\* draw below 0.01 accepts at any distance.
C26_AcceptanceRule ==
    /\ trial.cur.tried =>
          /\ trial.cur.accepted <=>
                (BelowProbability(trial.cur.w1, trial.cur.d20)
                    \/ BelowOnePercent(trial.cur.w2))
          /\ trial.cur.d20 + 2 <= 100 => trial.cur.accepted
          /\ BelowOnePercent(trial.cur.w2) => trial.cur.accepted
    /\ trial.cur.tried /\ trial.prev.tried
          /\ trial.prev.w1 = trial.cur.w1 /\ trial.prev.w2 = trial.cur.w2
          /\ trial.prev.d20 <= trial.cur.d20 /\ trial.cur.accepted
          => trial.prev.accepted

\* a pair at distance 0.05 accepted on the largest draws, after a pair at
\* distance 1000 that was accepted by the 1% chance alone
C26_Witness ==
    /\ trial.cur.tried /\ trial.cur.d20 = 1 /\ trial.cur.accepted
    /\ trial.cur.w1 = << 65535, 65535 >> /\ trial.cur.w2 = << 65535, 65535 >>
    /\ trial.prev.tried /\ trial.prev.d20 = 20000 /\ trial.prev.accepted
    /\ ~BelowProbability(trial.prev.w1, trial.prev.d20)


\* the values the glow can take: a step of 0.05 per reported event, at most
\* two events per snapshot in the inputs
GlowLevels == {5 * k : k \in 1 .. 2 * MaxMessages}

\* C27: once the current snapshot reports hebbian_events = 0, a positive
\* glow eventually falls below its value (unless a snapshot reports events
\* again first).
C27_GlowDecays ==
    \A g \in GlowLevels :
        (hebbianGlow = g /\ NumField(telemetry, "hebbian_events") = 0)
            ~> (hebbianGlow < g \/ NumField(telemetry, "hebbian_events") > 0)

\* the nodes the Connectome callback wrote from the current snapshot in the
\* last frame
WrittenNodes ==
    IF frameLog.fresh /\ Has(telemetry, "neuron_positions")
    THEN LET np == Positions(telemetry.f["neuron_positions"])
         IN  {i \in Nodes : i < ConnectomeCount(np) /\ i < ConnectomeStop(np)}
    ELSE {}

\* C28: after any number of frames, the rendered position of every active
\* node is within the jitter amplitude, per axis, of the position the current
\* snapshot gives it; and a frame changes neither the snapshot nor the props
\* that carry its positions.
C28_JitterBounded ==
    /\ [](\A i \in WrittenNodes : \A x \in 1 .. 3 :
            Abs(connectome.pos[i][x]
                  - 20 * PosAt(telemetry.f["neuron_positions"], i)[x]) <= Wave(1))
    /\ [][clock' # clock => telemetry' = telemetry /\ view' = view]_vars

\* the second frame in a row on one snapshot: a node away from the origin
\* is drawn off its authoritative position
C28_Witness ==
    /\ frameLog.fresh /\ frameLog.before = view.Connectome.gen
    /\ \E i \in WrittenNodes :
          /\ PosAt(telemetry.f["neuron_positions"], i) # << 0, 0, 0 >>
          /\ \E x \in 1 .. 3 :
                connectome.pos[i][x] # 20 * PosAt(telemetry.f["neuron_positions"], i)[x]


\* C29: the current snapshot is never anything but absent or a JSON object
\* with at least one key, and the sparkline history has an entry only once
\* such an object has been accepted.
C29_OnlyNonEmptyObjects ==
    /\ telemetry.t \in {"null", "obj"}
    /\ telemetry.t = "obj" => telemetry.keys > 0
    /\ telemetry.t = "null" => \A key \in HistoryKeys : history[key] = << >>


\* the sessions that hold an open resource of each kind
LiveStreams == {s \in Sessions : audio.sessions[s].mic = "live"}
OpenSockets == {s \in Sessions : audio.sessions[s].ws \in {"connecting", "open"}}
OpenContexts == {s \in Sessions : audio.sessions[s].ctx = "open"}
ConnectedProcessors == {s \in Sessions : audio.sessions[s].processor = "connected"}

\* C30: at no time is there more than one live mic stream, more than one
\* audio WebSocket connecting or open, or more than one connected processor;
\* and once stopCapture has returned (and startCapture has not been called
\* again) no stream, audio context, socket or processor of an earlier
\* startCapture is open and no frame has been sent since.
C30_SingleSessionReleased ==
    /\ Cardinality(LiveStreams) <= 1
    /\ Cardinality(OpenSockets) <= 1
    /\ Cardinality(ConnectedProcessors) <= 1
    /\ audio.stopped =>
          /\ LiveStreams = {} /\ OpenSockets = {} /\ OpenContexts = {}
          /\ ConnectedProcessors = {}
          /\ ~audio.afterStop

====
